---- MODULE Spec2Model ----
(***************************************************************************)
(* The patient record store of Gaza Care Hub                              *)
(* (src/src/services/storage.ts): IndexedDBStorageService over one Dexie  *)
(* table "patients" keyed by id.  A JavaScript object is a function from   *)
(* its property names to their values; an optional property that is not   *)
(* set is not in the DOMAIN.                                               *)
(***************************************************************************)
EXTENDS Integers, Sequences, FiniteSets, TLC

\* ------------------------------------------------------------------ bounds
MaxClock == 1          \* Date.now() takes the values 0..MaxClock
MaxOps == 3            \* calls made on the store in one behaviour of Spec
MaxUpdates == 52       \* updatePatient calls in one behaviour of SpecAudit
MaxNotes == 22         \* addHandoverNote calls in one behaviour of SpecLedger
MaxConcOps == 3        \* calls started in one behaviour of SpecConc
MaxQueryOps == 3       \* writing calls made in one behaviour of SpecQuery
MaxFaultOps == 3       \* writing calls made in one behaviour of SpecFault
MaxExportOps == 3      \* writing calls made in one behaviour of SpecExport

\* ------------------------------------------------------- program constants
MaxStatusChanges == 50     \* .slice(0, 50)
MaxHandoverNotes == 20     \* .slice(0, 20)

\* --------------------------------------------------------- object helpers
Has(obj, k) == k \in DOMAIN obj

\* { ...a, ...b }
Spread(a, b) ==
  [k \in (DOMAIN a) \cup (DOMAIN b) |-> IF k \in DOMAIN b THEN b[k] ELSE a[k]]

\* const { k1: _, k2: _, ...rest } = obj
Rest(obj, ks) == [k \in (DOMAIN obj) \ ks |-> obj[k]]

\* the value JavaScript reads from a property that is not set
Undefined == "undefined"

Get(obj, k) == IF Has(obj, k) THEN obj[k] ELSE Undefined

\* obj.k is truthy: set, and not the empty string
Truthy(obj, k) == Has(obj, k) /\ obj[k] # "" /\ obj[k] # Undefined

\* obj.k || dflt
OrElse(obj, k, dflt) == IF Truthy(obj, k) THEN obj[k] ELSE dflt

\* obj.k || []
OrEmpty(obj, k) == IF Has(obj, k) THEN obj[k] ELSE << >>

\* arr.slice(0, n)
Slice(arr, n) == SubSeq(arr, 1, IF Len(arr) < n THEN Len(arr) ELSE n)

\* arr.reverse()
Reverse(arr) == [i \in 1..Len(arr) |-> arr[Len(arr) - i + 1]]

\* arr.sort((a, b) => b.timestamp - a.timestamp): descending and stable:
\* the elements with the largest timestamp in the order they had, then those
\* with the next one, and so on
RECURSIVE SortByTimestamps(_, _)
SortByTimestamps(arr, ts) ==
  IF ts = {} THEN << >>
  ELSE LET top == CHOOSE t \in ts : \A o \in ts : t >= o
           IsTop(e) == e.timestamp = top
       IN SelectSeq(arr, IsTop) \o SortByTimestamps(arr, ts \ {top})

SortDesc(arr) == SortByTimestamps(arr, {arr[i].timestamp : i \in 1..Len(arr)})

\* ------------------------------------------------------------------ state
VARIABLES
  store,     \* db.patients: id -> stored Patient object
  now,       \* the value Date.now() returns
  uuid,      \* number of identifiers crypto.randomUUID() has handed out
  born,      \* id -> the Patient object as addPatient first stored it
  last,      \* the latest finished call: its arguments, what it read, its outcome
  calls,     \* caller -> the call it has in flight, suspended at an await
  nops       \* calls started so far

vars == <<store, now, uuid, born, last, calls, nops>>

\* ------------------------------------------------------------- input sets
Callers == {"c1", "c2"}

\* an id no record has: randomUUID numbers the identifiers from 1
UnknownIds == {0}

\* a StatusChange and a HandoverNote as a caller may put them in a payload
CallerChange(t) ==
  [id |-> 0, patientId |-> 0, timestamp |-> t, changeType |-> "vitals",
   previousValue |-> "a", newValue |-> "b", isHighlighted |-> FALSE]

CallerNote(t) ==
  [id |-> 0, patientId |-> 0, timestamp |-> t, staffName |-> "Sam",
   shiftType |-> "incoming", summary |-> "caller", criticalUpdates |-> << >>,
   keyObservations |-> "", actionItems |-> << >>, priority |-> "low"]

\* the object PatientForm passes to addPatient (HandoverDisplay.tsx:911)
FormPatient ==
  [name |-> "Ann", age |-> 30, symptoms |-> <<"Fever", "Cough">>,
   condition |-> "mild", triageLevel |-> "Stable", status |-> "Waiting",
   notes |-> "", lastUpdated |-> 1, mainComplaint |-> "cough"]

\* an Omit<Patient, "id" | "timestamp"> that sets every property the type has
FullPatient ==
  [name |-> "Bob", age |-> 7, symptoms |-> << >>, condition |-> "Burn",
   triageLevel |-> "Urgent", status |-> "Treated", notes |-> "seen",
   lastUpdated |-> 2, treatmentPlan |-> "rest",
   statusChanges |-> <<CallerChange(0), CallerChange(1)>>,
   handoverNotes |-> <<CallerNote(0)>>]

NewPatients == {FormPatient, FullPatient}

\* Partial<Patient> objects passed to updatePatient
UpdatePayloads ==
  { [id |-> 99, timestamp |-> 0, name |-> "X"],
    [status |-> "In Treatment"],
    [status |-> "Waiting"],
    [notes |-> "n1"],
    [notes |-> ""],
    [treatmentPlan |-> "plan"],
    [treatmentPlan |-> ""],
    [triageLevel |-> "Critical"],
    [status |-> "In Treatment", triageLevel |-> "Critical", notes |-> "n1",
     treatmentPlan |-> "plan"],
    [age |-> 31, condition |-> "worse"],
    [lastUpdated |-> 0, statusChanges |-> <<CallerChange(2)>>],
    [handoverNotes |-> [i \in 1..(MaxHandoverNotes + 1) |-> CallerNote(0)]] }

\* Omit<HandoverNote, "id" | "timestamp" | "patientId"> objects
NoteInputs ==
  { [staffName |-> "Dana", shiftType |-> "outgoing", summary |-> "s1",
     criticalUpdates |-> <<"u">>, keyObservations |-> "k",
     actionItems |-> <<"a">>, priority |-> "high"],
    [staffName |-> "Eli", shiftType |-> "incoming", summary |-> "s2",
     criticalUpdates |-> << >>, keyObservations |-> "",
     actionItems |-> << >>, priority |-> "low",
     id |-> 0, patientId |-> 0, timestamp |-> 0] }

\* ----------------------------------------------------------- the engine
\* db.patients.get(id)
TableHas(db, id) == id \in DOMAIN db

\* db.patients.add(obj): the key must be new
TableAdd(db, obj) == [k \in (DOMAIN db) \cup {obj.id} |-> IF k = obj.id THEN obj ELSE db[k]]

\* db.patients.update(id, changes): sets the given properties of the stored
\* object in one transaction; with no object under id it changes nothing
\* written as put: with no object under id, one is made of the changes
TableUpdate_Put(db, id, changes) ==
  IF TableHas(db, id) THEN [db EXCEPT ![id] = Spread(db[id], changes)]
  ELSE TableAdd(db, Spread([id |-> id], changes))

TableUpdate(db, id, changes) ==
  IF TableHas(db, id) THEN [db EXCEPT ![id] = Spread(db[id], changes)] ELSE db

\* db.patients.delete(id)
TableDelete(db, id) == [k \in (DOMAIN db) \ {id} |-> db[k]]

\* db.patients.orderBy("timestamp").reverse().toArray(): the index is read
\* backwards, so equal timestamps come in descending key order
RECURSIVE OrderedDesc(_, _)
OrderedDesc(db, ids) ==
  IF ids = {} THEN << >>
  ELSE LET top == CHOOSE i \in ids :
                    \A j \in ids :
                      \/ db[i].timestamp > db[j].timestamp
                      \/ db[i].timestamp = db[j].timestamp /\ i >= j
       IN <<db[top]>> \o OrderedDesc(db, ids \ {top})

\* ------------------------------------------------------------ addPatient
\* const id = crypto.randomUUID(), u identifiers having been handed out
\* an identifier that was handed out before
randomUUID_Reused(u) == 1

randomUUID(u) == u + 1

\* const fullPatient = { ...patient, id, timestamp, status: 'Waiting',
\*                       notes: '', lastUpdated: timestamp }
\* the spread written last, so that the caller's properties win
FullPatientOf_CallerWins(patient, id, timestamp) ==
  Spread([id |-> id, timestamp |-> timestamp, status |-> "Waiting",
          notes |-> "", lastUpdated |-> timestamp], patient)

FullPatientOf(patient, id, timestamp) ==
  Spread(patient, [id |-> id, timestamp |-> timestamp, status |-> "Waiting",
                   notes |-> "", lastUpdated |-> timestamp])

\* --------------------------------------------------- trackStatusChanges
StatusChangeOf(id, existingPatient, timestamp, changeType, prev, new, hl) ==
  [id |-> id, patientId |-> existingPatient.id, timestamp |-> timestamp,
   changeType |-> changeType, previousValue |-> prev, newValue |-> new,
   isHighlighted |-> hl]

\* if (updates.f && updates.f !== existingPatient.f)
Tracked(existingPatient, updates, f) ==
  Truthy(updates, f) /\ updates[f] # Get(existingPatient, f)

\* newChanges, in the order of the four ifs; u identifiers are in use already
NewChanges(existingPatient, updates, timestamp, u) ==
  LET c1 == IF Tracked(existingPatient, updates, "status")
            THEN <<StatusChangeOf(u + 1, existingPatient, timestamp, "status",
                      OrElse(existingPatient, "status", "Unknown"),
                      updates.status, TRUE)>>
            ELSE << >>
      c2 == IF Tracked(existingPatient, updates, "triageLevel")
            THEN c1 \o <<StatusChangeOf(u + Len(c1) + 1, existingPatient,
                      timestamp, "triage", Get(existingPatient, "triageLevel"),
                      updates.triageLevel, TRUE)>>
            ELSE c1
      c3 == IF Tracked(existingPatient, updates, "notes")
            THEN c2 \o <<StatusChangeOf(u + Len(c2) + 1, existingPatient,
                      timestamp, "notes",
                      OrElse(existingPatient, "notes", "No notes"),
                      updates.notes, FALSE)>>
            ELSE c2
  IN IF Tracked(existingPatient, updates, "treatmentPlan")
     THEN c3 \o <<StatusChangeOf(u + Len(c3) + 1, existingPatient, timestamp,
                     "treatment",
                     OrElse(existingPatient, "treatmentPlan", "No treatment plan"),
                     updates.treatmentPlan, TRUE)>>
     ELSE c3

\* [...existingChanges, ...newChanges].sort(...).slice(0, 50)
AllChanges(existingChanges, newChanges) ==
  Slice(SortDesc(existingChanges \o newChanges), MaxStatusChanges)

trackStatusChanges(existingPatient, updates, timestamp, u) ==
  AllChanges(OrEmpty(existingPatient, "statusChanges"),
             NewChanges(existingPatient, updates, timestamp, u))

\* --------------------------------------------------------- updatePatient
\* const { id: _ignoredId, timestamp: _ignoredTimestamp, ...allowedUpdates } = updates
\* only the timestamp excluded
AllowedUpdates_KeepId(updates) == Rest(updates, {"timestamp"})

\* only the id excluded
AllowedUpdates_KeepTimestamp(updates) == Rest(updates, {"id"})

AllowedUpdates(updates) == Rest(updates, {"id", "timestamp"})

\* { ...allowedUpdates, lastUpdated: Date.now(), statusChanges }
\* the spread written last, so that the caller's properties win
UpdatesWithTimestamp_CallerWins(allowedUpdates, lastUpdated, statusChanges) ==
  Spread([lastUpdated |-> lastUpdated, statusChanges |-> statusChanges],
         allowedUpdates)

UpdatesWithTimestamp(allowedUpdates, lastUpdated, statusChanges) ==
  Spread(allowedUpdates,
         [lastUpdated |-> lastUpdated, statusChanges |-> statusChanges])

\* ------------------------------------------------------- addHandoverNote
\* { ...handoverNote, id: crypto.randomUUID(), patientId, timestamp: Date.now() }
\* the spread written last, so that the caller's properties win
NewHandoverNote_CallerWins(handoverNote, id, patientId, timestamp) ==
  Spread([id |-> id, patientId |-> patientId, timestamp |-> timestamp], handoverNote)

NewHandoverNote(handoverNote, id, patientId, timestamp) ==
  Spread(handoverNote, [id |-> id, patientId |-> patientId, timestamp |-> timestamp])

\* [newHandoverNote, ...existingNotes].slice(0, 20)
\* the new note put behind the existing ones
UpdatedNotes_Appended(newHandoverNote, existingNotes) ==
  Slice(existingNotes \o <<newHandoverNote>>, MaxHandoverNotes)

UpdatedNotes(newHandoverNote, existingNotes) ==
  Slice(<<newHandoverNote>> \o existingNotes, MaxHandoverNotes)

\* --------------------------------------------------------- deletePatient
\* the re-read after the delete: if (existingPatient) throw
\* the re-read left out
DeleteVerified_Unchecked(db, id) == TRUE

DeleteVerified(db, id) == ~TableHas(db, id)

\* what db.patients.delete(id) may leave behind when it returns: the table
\* without the record, or (the case the re-read is there for) the table as it was
DeleteOutcomes(db, id) == {TableDelete(db, id), db}

\* ------------------------------------------------------------ the readers
\* db.patients.get(id): the record, if there is one (a sequence of 0 or 1)
getById(db, id) == IF TableHas(db, id) THEN <<db[id]>> ELSE << >>

\* .orderBy("timestamp").reverse().toArray()
\* .reverse() left out
getPatients_Unreversed(db) == Reverse(OrderedDesc(db, DOMAIN db))

getPatients(db) == OrderedDesc(db, DOMAIN db)

\* this.version(1).stores({ patients: "id, name, age, ..." }): the primary
\* key and the key paths that have an index
Indexes ==
  {"id", "name", "age", "symptoms", "condition", "triageLevel", "timestamp"}

\* .where(field).equals(value): the keys of the records the collection holds
WhereEquals(db, field, value) ==
  {id \in DOMAIN db : Has(db[id], field) /\ db[id][field] = value}

\* the collection as the index gives it: the index keys being equal, in
\* ascending order of the primary key
RECURSIVE InKeyOrder(_, _)
InKeyOrder(db, ids) ==
  IF ids = {} THEN << >>
  ELSE LET low == CHOOSE i \in ids : \A j \in ids : i <= j
       IN <<db[low]>> \o InKeyOrder(db, ids \ {low})

\* collection.sortBy("timestamp"): the array sorted ascending, stable
RECURSIVE SortByTimestampsAsc(_, _)
SortByTimestampsAsc(arr, ts) ==
  IF ts = {} THEN << >>
  ELSE LET low == CHOOSE t \in ts : \A o \in ts : t <= o
           IsLow(e) == e.timestamp = low
       IN SelectSeq(arr, IsLow) \o SortByTimestampsAsc(arr, ts \ {low})

sortBy(arr) == SortByTimestampsAsc(arr, {arr[i].timestamp : i \in 1..Len(arr)})

\* a query on a key path: it is rejected (SchemaError) when the key path is
\* neither the primary key nor indexed
WhereEqualsSortBy(db, field, value) ==
  IF field \in Indexes
  THEN [ok |-> TRUE, patients |-> sortBy(InKeyOrder(db, WhereEquals(db, field, value)))]
  ELSE [ok |-> FALSE]

\* return patients.reverse() left out
getPatientsByTriageLevel_OldestFirst(db, triageLevel) ==
  WhereEqualsSortBy(db, "triageLevel", triageLevel)

getPatientsByTriageLevel(db, triageLevel) ==
  LET q == WhereEqualsSortBy(db, "triageLevel", triageLevel)
  IN IF q.ok THEN [ok |-> TRUE, patients |-> Reverse(q.patients)] ELSE q

getPatientsByStatus(db, status) ==
  LET q == WhereEqualsSortBy(db, "status", status)
  IN IF q.ok THEN [ok |-> TRUE, patients |-> Reverse(q.patients)] ELSE q

\* the characters of the strings the records and the search terms are made of
Chars(str) ==
  CASE str = "" -> << >>
    [] str = "Ann" -> <<"A", "n", "n">>
    [] str = "Bob" -> <<"B", "o", "b">>
    [] str = "X" -> <<"X">>
    [] str = "mild" -> <<"m", "i", "l", "d">>
    [] str = "Burn" -> <<"B", "u", "r", "n">>
    [] str = "worse" -> <<"w", "o", "r", "s", "e">>
    [] str = "seen" -> <<"s", "e", "e", "n">>
    [] str = "n1" -> <<"n", "1">>
    [] str = "nn" -> <<"n", "n">>
    [] str = "URN" -> <<"U", "R", "N">>
    [] str = "N1" -> <<"N", "1">>
    [] str = "fever" -> <<"f", "e", "v", "e", "r">>
    [] str = "cough" -> <<"c", "o", "u", "g", "h">>
    [] str = "Fever" -> <<"F", "e", "v", "e", "r">>
    [] str = "Cough" -> <<"C", "o", "u", "g", "h">>
    [] str = "Stable" -> <<"S", "t", "a", "b", "l", "e">>
    [] str = "Urgent" -> <<"U", "r", "g", "e", "n", "t">>
    [] str = "Critical" -> <<"C", "r", "i", "t", "i", "c", "a", "l">>
    [] str = "O\"Brien, J." ->
       <<"O", "\"", "B", "r", "i", "e", "n", ",", " ", "J", ".">>
    [] str = "a\nb" -> <<"a", "\n", "b">>
    [] str = "c\rd" -> <<"c", "\r", "d">>
    [] str = "plain" -> <<"p", "l", "a", "i", "n">>
    [] str = "x,y" -> <<"x", ",", "y">>
    [] str = "triage-export" ->
       <<"t", "r", "i", "a", "g", "e", "-", "e", "x", "p", "o", "r", "t">>
    [] str = "csv" -> <<"c", "s", "v">>
    [] str = "json" -> <<"j", "s", "o", "n">>
    [] str = "No patient data available for export" ->
       <<"N", "o", " ", "p", "a", "t", "i", "e", "n", "t", " ", "d", "a",
         "t", "a", " ", "a", "v", "a", "i", "l", "a", "b", "l", "e", " ",
         "f", "o", "r", " ", "e", "x", "p", "o", "r", "t">>
    [] str = "Patient ID" ->
       <<"P", "a", "t", "i", "e", "n", "t", " ", "I", "D">>
    [] str = "Name" -> <<"N", "a", "m", "e">>
    [] str = "Age" -> <<"A", "g", "e">>
    [] str = "Symptoms" -> <<"S", "y", "m", "p", "t", "o", "m", "s">>
    [] str = "Condition" -> <<"C", "o", "n", "d", "i", "t", "i", "o", "n">>
    [] str = "Triage Level" ->
       <<"T", "r", "i", "a", "g", "e", " ", "L", "e", "v", "e", "l">>
    [] str = "Timestamp" -> <<"T", "i", "m", "e", "s", "t", "a", "m", "p">>

UpperCase ==
  <<"A", "B", "C", "D", "E", "F", "G", "H", "I", "J", "K", "L", "M",
    "N", "O", "P", "Q", "R", "S", "T", "U", "V", "W", "X", "Y", "Z">>

LowerCase ==
  <<"a", "b", "c", "d", "e", "f", "g", "h", "i", "j", "k", "l", "m",
    "n", "o", "p", "q", "r", "s", "t", "u", "v", "w", "x", "y", "z">>

\* str.toLowerCase(), on the characters
toLowerCase(chars) ==
  [i \in 1..Len(chars) |->
     IF \E k \in 1..Len(UpperCase) : UpperCase[k] = chars[i]
     THEN LowerCase[CHOOSE k \in 1..Len(UpperCase) : UpperCase[k] = chars[i]]
     ELSE chars[i]]

\* str.includes(term), on the characters
includes(chars, term) ==
  \E i \in 0..(Len(chars) - Len(term)) : SubSeq(chars, i + 1, i + Len(term)) = term

\* the filter of searchPatients
\* patient.symptoms tested as well
Matches_AlsoSymptoms(patient, searchLower) ==
  \/ includes(toLowerCase(Chars(patient.name)), searchLower)
  \/ includes(toLowerCase(Chars(patient.condition)), searchLower)
  \/ includes(toLowerCase(Chars(patient.notes)), searchLower)
  \/ \E i \in 1..Len(patient.symptoms) :
       includes(toLowerCase(Chars(patient.symptoms[i])), searchLower)

Matches(patient, searchLower) ==
  \/ includes(toLowerCase(Chars(patient.name)), searchLower)
  \/ includes(toLowerCase(Chars(patient.condition)), searchLower)
  \/ includes(toLowerCase(Chars(patient.notes)), searchLower)

searchPatients(db, searchTerm) ==
  LET searchLower == toLowerCase(Chars(searchTerm))
      Test(patient) == Matches(patient, searchLower)
  IN SelectSeq(getPatients(db), Test)

\* db.patients.count()
getPatientCount(db) == Cardinality(DOMAIN db)

\* ------------------------------------------------------------ the export
\* (src/src/services/export.ts)  A string is the sequence of its characters.
DigitChars == <<"0", "1", "2", "3", "4", "5", "6", "7", "8", "9">>

\* n in decimal, padded with zeros to width characters
Padded(n, width) ==
  [i \in 1..width |-> DigitChars[((n \div (10 ^ (width - i))) % 10) + 1]]

\* n.toString() of a number that is not negative
RECURSIVE NumberToString(_)
NumberToString(n) ==
  IF n < 10 THEN <<DigitChars[n + 1]>>
  ELSE NumberToString(n \div 10) \o <<DigitChars[(n % 10) + 1]>>

\* parts.join(sep)
RECURSIVE Join(_, _)
Join(parts, sep) ==
  IF parts = << >> THEN << >>
  ELSE IF Len(parts) = 1 THEN parts[1]
  ELSE parts[1] \o sep \o Join(Tail(parts), sep)

\* str.replace(/c/g, by)
RECURSIVE ReplaceAll(_, _, _)
ReplaceAll(chars, c, by) ==
  IF chars = << >> THEN << >>
  ELSE (IF Head(chars) = c THEN by ELSE <<Head(chars)>>)
         \o ReplaceAll(Tail(chars), c, by)

\* an instant: whole seconds since 1970-01-01T00:00:00Z and milliseconds
Instant(timestamp) == [s |-> timestamp \div 1000, ms |-> timestamp % 1000]

\* the UTC calendar date of a day counted from 1970-01-01
CivilFromDays(days) ==
  LET z == days + 719468
      era == z \div 146097
      doe == z - era * 146097
      yoe == (doe - doe \div 1460 + doe \div 36524 - doe \div 146096) \div 365
      doy == doe - (365 * yoe + yoe \div 4 - yoe \div 100)
      mp == (5 * doy + 2) \div 153
      m == IF mp < 10 THEN mp + 3 ELSE mp - 9
  IN [year |-> yoe + era * 400 + (IF m <= 2 THEN 1 ELSE 0),
      month |-> m,
      day |-> doy - (153 * mp + 2) \div 5 + 1]

\* date.toISOString(): YYYY-MM-DDTHH:mm:ss.sssZ
toISOString(date) ==
  LET civil == CivilFromDays(date.s \div 86400)
      secs == date.s % 86400
  IN Padded(civil.year, 4) \o <<"-">> \o Padded(civil.month, 2) \o <<"-">>
       \o Padded(civil.day, 2) \o <<"T">> \o Padded(secs \div 3600, 2)
       \o <<":">> \o Padded((secs \div 60) % 60, 2) \o <<":">>
       \o Padded(secs % 60, 2) \o <<".">> \o Padded(date.ms, 3) \o <<"Z">>

\* private formatTimestamp(timestamp: number): string
\* the number printed as it is
formatTimestamp_Raw(timestamp) == NumberToString(timestamp)

formatTimestamp(timestamp) == toISOString(Instant(timestamp))

HasChar(chars, c) == \E i \in 1..Len(chars) : chars[i] = c

\* private escapeCSVValue(value: string): string
\* the quotes inside the value left single
escapeCSVValue_QuotesKept(value) ==
  IF HasChar(value, ",") \/ HasChar(value, "\"") \/ HasChar(value, "\n")
       \/ HasChar(value, "\r")
  THEN <<"\"">> \o value \o <<"\"">>
  ELSE value

escapeCSVValue(value) ==
  IF HasChar(value, ",") \/ HasChar(value, "\"") \/ HasChar(value, "\n")
       \/ HasChar(value, "\r")
  THEN <<"\"">> \o ReplaceAll(value, "\"", <<"\"", "\"">>) \o <<"\"">>
  ELSE value

\* patient.symptoms.join(";")
SymptomsFormatted(patient) ==
  Join([i \in 1..Len(patient.symptoms) |-> Chars(patient.symptoms[i])], <<";">>)

\* private patientToCSVRow(patient: Patient): string
\* the name and the id in each other's column
patientToCSVRow_NameFirst(patient) ==
  Join(<<escapeCSVValue(Chars(patient.name)),
         escapeCSVValue(NumberToString(patient.id)),
         NumberToString(patient.age),
         escapeCSVValue(SymptomsFormatted(patient)),
         escapeCSVValue(Chars(patient.condition)),
         escapeCSVValue(Chars(patient.triageLevel)),
         escapeCSVValue(formatTimestamp(patient.timestamp))>>, <<",">>)

patientToCSVRow(patient) ==
  Join(<<escapeCSVValue(NumberToString(patient.id)),
         escapeCSVValue(Chars(patient.name)),
         NumberToString(patient.age),
         escapeCSVValue(SymptomsFormatted(patient)),
         escapeCSVValue(Chars(patient.condition)),
         escapeCSVValue(Chars(patient.triageLevel)),
         escapeCSVValue(formatTimestamp(patient.timestamp))>>, <<",">>)

headers ==
  <<Chars("Patient ID"), Chars("Name"), Chars("Age"), Chars("Symptoms"),
    Chars("Condition"), Chars("Triage Level"), Chars("Timestamp")>>

\* async exportToCSV(): Promise<string>
exportToCSV(db) ==
  LET patients == getPatients(db)
  IN IF Len(patients) = 0
     THEN Chars("No patient data available for export")
     ELSE Join(<<Join(headers, <<",">>)>>
                 \o [i \in 1..Len(patients) |-> patientToCSVRow(patients[i])],
               <<"\n">>)

\* the exportData object of exportToJSON, which JSON.stringify writes out
exportData(db, date) ==
  LET patients == getPatients(db)
  IN [exportTimestamp |-> toISOString(date),
      patientCount |-> Len(patients),
      patients |-> [i \in 1..Len(patients) |->
                      Spread(patients[i],
                             [timestamp |-> formatTimestamp(patients[i].timestamp)])]]

\* generateTimestampedFilename(prefix, extension), date being new Date()
generateTimestampedFilename(prefix, extension, date) ==
  LET timestamp ==
        Slice(ReplaceAll(ReplaceAll(toISOString(date), ":", <<"-">>), ".", <<"-">>), 19)
  IN Chars(prefix) \o <<"_">> \o timestamp \o <<".">> \o Chars(extension)

\* the readings Date.now() can give later in a call that first read t
LaterReadings(t) == {r \in t..(t + 1) : r <= MaxClock}

Init ==
  /\ store = << >>
  /\ now = 0
  /\ uuid = 0
  /\ born = << >>
  /\ last = [op |-> "none"]
  /\ calls = [c \in Callers |-> [pc |-> "idle"]]
  /\ nops = 0

\* the ids a caller may pass: of a stored record, of a deleted one, of none
KnownIds == (DOMAIN born) \cup UnknownIds

\* ---------------------------------------------- the calls, one at a time
\* async addPatient(patient): Promise<string>
addPatient(patient) ==
  LET id == randomUUID(uuid)
      fullPatient == FullPatientOf(patient, id, now)
  IN /\ store' = TableAdd(store, fullPatient)
     /\ born' = TableAdd(born, fullPatient)
     /\ uuid' = uuid + 1
     /\ last' = [op |-> "addPatient", ok |-> TRUE, id |-> id, patient |-> patient,
                 t |-> now, before |-> store, created |-> DOMAIN born]
     /\ nops' = nops + 1
     /\ UNCHANGED <<now, calls>>

\* what updatePatient hands to db.patients.update, from the record it loaded
UpdateChanges(existingPatient, updates, t1, t2, u) ==
  UpdatesWithTimestamp(AllowedUpdates(updates), t2,
      trackStatusChanges(existingPatient, AllowedUpdates(updates), t1, u))

\* async updatePatient(id, updates): Promise<void>
updatePatient(id, updates) ==
  IF ~TableHas(store, id)
  THEN /\ last' = [op |-> "updatePatient", ok |-> FALSE, id |-> id,
                   updates |-> updates, before |-> store]
       /\ nops' = nops + 1
       /\ UNCHANGED <<store, now, uuid, born, calls>>
  ELSE \E t2 \in LaterReadings(now) :
         LET existingPatient == store[id]
             newChanges == NewChanges(existingPatient, AllowedUpdates(updates), now, uuid)
         IN /\ store' = TableUpdate(store, id,
                           UpdateChanges(existingPatient, updates, now, t2, uuid))
            /\ uuid' = uuid + Len(newChanges)
            /\ now' = t2
            /\ last' = [op |-> "updatePatient", ok |-> TRUE, id |-> id,
                        updates |-> updates, before |-> store, t |-> now,
                        t2 |-> t2, newChanges |-> newChanges]
            /\ nops' = nops + 1
            /\ UNCHANGED <<born, calls>>

\* what addHandoverNote hands to db.patients.update
\* the whole record as it was loaded, with the new list, handed over
NoteChanges_WholeRecord(existingPatient, handoverNote, patientId, t1, t2, u) ==
  Spread(existingPatient,
         [handoverNotes |->
            UpdatedNotes(NewHandoverNote(handoverNote, u + 1, patientId, t1),
                         OrEmpty(existingPatient, "handoverNotes")),
          lastUpdated |-> t2])

NoteChanges(existingPatient, handoverNote, patientId, t1, t2, u) ==
  [handoverNotes |->
     UpdatedNotes(NewHandoverNote(handoverNote, u + 1, patientId, t1),
                  OrEmpty(existingPatient, "handoverNotes")),
   lastUpdated |-> t2]

\* async addHandoverNote(patientId, handoverNote): Promise<void>
\* without the not-found test, and written with put: a record is made for an
\* id that has none
addHandoverNote_Upsert(patientId, handoverNote) ==
  \E t2 \in LaterReadings(now) :
    LET existingPatient == IF TableHas(store, patientId) THEN store[patientId]
                           ELSE [id |-> patientId]
        changes == NoteChanges(existingPatient, handoverNote, patientId, now, t2, uuid)
    IN /\ store' = TableAdd(store, Spread(existingPatient, changes))
       /\ uuid' = uuid + 1
       /\ now' = t2
       /\ last' = [op |-> "addHandoverNote", ok |-> TRUE, id |-> patientId,
                   note |-> handoverNote, before |-> store, t |-> now,
                   t2 |-> t2, noteId |-> uuid + 1]
       /\ nops' = nops + 1
       /\ UNCHANGED <<born, calls>>

addHandoverNote(patientId, handoverNote) ==
  IF ~TableHas(store, patientId)
  THEN /\ last' = [op |-> "addHandoverNote", ok |-> FALSE, id |-> patientId,
                   note |-> handoverNote, before |-> store]
       /\ nops' = nops + 1
       /\ UNCHANGED <<store, now, uuid, born, calls>>
  ELSE \E t2 \in LaterReadings(now) :
         /\ store' = TableUpdate(store, patientId,
                        NoteChanges(store[patientId], handoverNote, patientId,
                                    now, t2, uuid))
         /\ uuid' = uuid + 1
         /\ now' = t2
         /\ last' = [op |-> "addHandoverNote", ok |-> TRUE, id |-> patientId,
                     note |-> handoverNote, before |-> store, t |-> now,
                     t2 |-> t2, noteId |-> uuid + 1]
         /\ nops' = nops + 1
         /\ UNCHANGED <<born, calls>>

\* async deletePatient(id): Promise<void>
deletePatient(id) ==
  \E after \in DeleteOutcomes(store, id) :
    /\ store' = after
    /\ last' = [op |-> "deletePatient", ok |-> DeleteVerified(after, id),
                id |-> id, before |-> store]
    /\ nops' = nops + 1
    /\ UNCHANGED <<now, uuid, born, calls>>

\* time passes between two calls
Tick ==
  /\ now < MaxClock
  /\ now' = now + 1
  /\ UNCHANGED <<store, uuid, born, last, calls, nops>>

\* a caller makes a call and awaits it before anyone makes the next one
Create == nops < MaxOps /\ \E patient \in NewPatients : addPatient(patient)

Update ==
  nops < MaxOps /\ \E id \in KnownIds, updates \in UpdatePayloads :
                     updatePatient(id, updates)

AddNote ==
  nops < MaxOps /\ \E id \in KnownIds, note \in NoteInputs :
                     addHandoverNote(id, note)

Delete == nops < MaxOps /\ \E id \in KnownIds : deletePatient(id)

Next == Create \/ Update \/ AddNote \/ Delete \/ Tick

Spec == Init /\ [][Next]_vars

\* ------------------------------- one record, updated over and over
\* updates that each change the status, the one tracked field they carry
AuditPayloads == {[status |-> "In Treatment"], [status |-> "Treated"]}

AuditCreate == DOMAIN born = {} /\ addPatient(FormPatient)

AuditUpdate ==
  /\ nops - 1 < MaxUpdates
  /\ \E id \in DOMAIN store, updates \in AuditPayloads :
       /\ Tracked(store[id], updates, "status")
       /\ updatePatient(id, updates)

NextAudit == AuditCreate \/ AuditUpdate \/ Tick

SpecAudit == Init /\ [][NextAudit]_vars

\* --------------------------- one record, handover notes added to it
LedgerNotes == {n \in NoteInputs : n.staffName = "Dana"}

LedgerCreate == DOMAIN born = {} /\ \E patient \in NewPatients : addPatient(patient)

LedgerAddNote ==
  /\ nops - 1 < MaxNotes
  /\ \E id \in DOMAIN store, note \in LedgerNotes : addHandoverNote(id, note)

NextLedger == LedgerCreate \/ LedgerAddNote \/ Tick

SpecLedger == Init /\ [][NextLedger]_vars

\* ------------------------------------ calls in flight at the same time
\* updatePatient is an async function: it suspends at
\* `await this.db.patients.get(id)` and any other call may run before it
\* resumes with the record it loaded.
ConcPayloads == {[status |-> "In Treatment"], [notes |-> "n1"]}

ConcCreate == DOMAIN born = {} /\ \E patient \in NewPatients : addPatient(patient)

\* updatePatient up to the await of db.patients.get(id)
UpdateLoad(c, id, updates) ==
  /\ calls[c].pc = "idle"
  /\ nops < MaxConcOps
  /\ nops' = nops + 1
  /\ IF TableHas(store, id)
     THEN /\ calls' = [calls EXCEPT ![c] =
                         [pc |-> "loaded", op |-> "updatePatient", id |-> id,
                          updates |-> updates, existingPatient |-> store[id],
                          seq |-> nops + 1]]
          /\ UNCHANGED last
     ELSE /\ calls' = [calls EXCEPT ![c] =
                         [pc |-> "done", op |-> "updatePatient", id |-> id,
                          updates |-> updates, ok |-> FALSE]]
          /\ last' = [op |-> "updatePatient", ok |-> FALSE, id |-> id,
                      updates |-> updates, before |-> store]
  /\ UNCHANGED <<store, now, uuid, born>>

\* updatePatient from there on: trackStatusChanges, then db.patients.update
UpdateWrite(c) ==
  /\ calls[c].pc = "loaded" /\ calls[c].op = "updatePatient"
  /\ \E t2 \in LaterReadings(now) :
       LET id == calls[c].id
           updates == calls[c].updates
           existingPatient == calls[c].existingPatient
           newChanges == NewChanges(existingPatient, AllowedUpdates(updates), now, uuid)
       IN /\ store' = TableUpdate(store, id,
                         UpdateChanges(existingPatient, updates, now, t2, uuid))
          /\ uuid' = uuid + Len(newChanges)
          /\ now' = t2
          /\ calls' = [calls EXCEPT ![c] =
                         [pc |-> "done", op |-> "updatePatient", id |-> id,
                          updates |-> updates, ok |-> TRUE,
                          newChanges |-> newChanges,
                          existingPatient |-> existingPatient,
                          seq |-> calls[c].seq, wroteAt |-> nops,
                          updated |-> IF TableHas(store, id) THEN 1 ELSE 0]]
          /\ last' = [op |-> "updatePatient", ok |-> TRUE, id |-> id,
                      updates |-> updates, before |-> store, t |-> now,
                      t2 |-> t2, newChanges |-> newChanges]
          /\ UNCHANGED <<born, nops>>

\* addHandoverNote up to the await of db.patients.get(patientId)
NoteLoad(c, patientId, handoverNote) ==
  /\ calls[c].pc = "idle"
  /\ nops < MaxConcOps
  /\ nops' = nops + 1
  /\ IF TableHas(store, patientId)
     THEN /\ calls' = [calls EXCEPT ![c] =
                         [pc |-> "loaded", op |-> "addHandoverNote",
                          id |-> patientId, note |-> handoverNote,
                          existingPatient |-> store[patientId],
                          seq |-> nops + 1]]
          /\ UNCHANGED last
     ELSE /\ calls' = [calls EXCEPT ![c] =
                         [pc |-> "done", op |-> "addHandoverNote",
                          id |-> patientId, note |-> handoverNote, ok |-> FALSE]]
          /\ last' = [op |-> "addHandoverNote", ok |-> FALSE, id |-> patientId,
                      note |-> handoverNote, before |-> store]
  /\ UNCHANGED <<store, now, uuid, born>>

\* addHandoverNote from there on: the new note, then db.patients.update
NoteWrite(c) ==
  /\ calls[c].pc = "loaded" /\ calls[c].op = "addHandoverNote"
  /\ \E t2 \in LaterReadings(now) :
       LET patientId == calls[c].id
           handoverNote == calls[c].note
           existingPatient == calls[c].existingPatient
       IN /\ store' = TableUpdate(store, patientId,
                         NoteChanges(existingPatient, handoverNote, patientId,
                                     now, t2, uuid))
          /\ uuid' = uuid + 1
          /\ now' = t2
          /\ calls' = [calls EXCEPT ![c] =
                         [pc |-> "done", op |-> "addHandoverNote",
                          id |-> patientId, note |-> handoverNote, ok |-> TRUE,
                          noteId |-> uuid + 1,
                          existingPatient |-> existingPatient,
                          seq |-> calls[c].seq, wroteAt |-> nops,
                          updated |-> IF TableHas(store, patientId) THEN 1 ELSE 0]]
          /\ last' = [op |-> "addHandoverNote", ok |-> TRUE, id |-> patientId,
                      note |-> handoverNote, before |-> store, t |-> now,
                      t2 |-> t2, noteId |-> uuid + 1]
          /\ UNCHANGED <<born, nops>>

\* deletePatient up to the await of db.patients.delete(id)
DeleteRequest(c, id) ==
  /\ calls[c].pc = "idle"
  /\ nops < MaxConcOps
  /\ nops' = nops + 1
  /\ \E after \in DeleteOutcomes(store, id) : store' = after
  /\ calls' = [calls EXCEPT ![c] =
                 [pc |-> "deleting", op |-> "deletePatient", id |-> id,
                  before |-> store]]
  /\ UNCHANGED <<now, uuid, born, last>>

\* deletePatient from there on: the re-read, and the throw if it finds a record
DeleteVerify(c) ==
  /\ calls[c].pc = "deleting"
  /\ calls' = [calls EXCEPT ![c] =
                 [pc |-> "done", op |-> "deletePatient", id |-> calls[c].id,
                  ok |-> DeleteVerified(store, calls[c].id)]]
  /\ last' = [op |-> "deletePatient", ok |-> DeleteVerified(store, calls[c].id),
              id |-> calls[c].id, before |-> calls[c].before]
  /\ UNCHANGED <<store, now, uuid, born, nops>>

\* the caller's await is over; it may make its next call
Return(c) ==
  /\ calls[c].pc = "done"
  /\ calls' = [calls EXCEPT ![c] = [pc |-> "idle"]]
  /\ UNCHANGED <<store, now, uuid, born, last, nops>>

ConcLoad ==
  \E c \in Callers, id \in KnownIds, updates \in ConcPayloads :
    UpdateLoad(c, id, updates)

ConcWrite == \E c \in Callers : UpdateWrite(c)

ConcNoteLoad ==
  \E c \in Callers, id \in KnownIds, note \in LedgerNotes : NoteLoad(c, id, note)

ConcNoteWrite == \E c \in Callers : NoteWrite(c)

ConcDeleteRequest == \E c \in Callers, id \in DOMAIN store : DeleteRequest(c, id)

ConcDeleteVerify == \E c \in Callers : DeleteVerify(c)

ConcReturn == \E c \in Callers : Return(c)

NextConc ==
  \/ ConcCreate \/ ConcLoad \/ ConcWrite \/ ConcReturn \/ Tick
  \/ ConcNoteLoad \/ ConcNoteWrite \/ ConcDeleteRequest \/ ConcDeleteVerify

SpecConc == Init /\ [][NextConc]_vars

\* ------------------------------------------- the store read and queried
TriageLevels == {"Critical", "Urgent", "Stable"}

Statuses == {"Waiting", "Treated"}

SearchTerms == {"nn", "URN", "N1", "fever", "cough"}

QueryPayloads ==
  { [notes |-> "n1", triageLevel |-> "Critical", condition |-> "worse"] }

QueryCreate ==
  nops < MaxQueryOps /\ \E patient \in NewPatients : addPatient(patient)

QueryUpdate ==
  nops < MaxQueryOps /\ \E id \in DOMAIN store, updates \in QueryPayloads :
                          updatePatient(id, updates)

QueryDelete == nops < MaxQueryOps /\ \E id \in DOMAIN store : deletePatient(id)

\* a read: the caller gets the result; nothing else changes
Read(op, arg, result) ==
  /\ last' = [op |-> op, arg |-> arg, result |-> result]
  /\ UNCHANGED <<store, now, uuid, born, calls, nops>>

ReadAll == Read("getPatients", "", [ok |-> TRUE, patients |-> getPatients(store)])

ReadByTriageLevel ==
  \E triageLevel \in TriageLevels :
    Read("getPatientsByTriageLevel", triageLevel,
         getPatientsByTriageLevel(store, triageLevel))

ReadByStatus ==
  \E status \in Statuses :
    Read("getPatientsByStatus", status, getPatientsByStatus(store, status))

Search ==
  \E searchTerm \in SearchTerms :
    Read("searchPatients", searchTerm,
         [ok |-> TRUE, patients |-> searchPatients(store, searchTerm)])

NextQuery ==
  \/ QueryCreate \/ QueryUpdate \/ QueryDelete \/ Tick
  \/ ReadAll \/ ReadByTriageLevel \/ ReadByStatus \/ Search

SpecQuery == Init /\ [][NextQuery]_vars

\* ------------------------------------- the engine rejecting a request
\* Every handler awaits its requests to Dexie inside try { ... } and its catch
\* throws a new Error: a rejected request ends the call with an error, and
\* what the requests before it wrote stays written.
FaultPayloads == {[status |-> "Treated"], [name |-> "X"]}

ReadOps ==
  {"getPatients", "getPatientsByTriageLevel", "getPatientsByStatus",
   "searchPatients", "getPatientCount"}

\* async clearAllPatients(): Promise<void>
clearAllPatients ==
  /\ store' = << >>
  /\ last' = [op |-> "clearAllPatients", ok |-> TRUE, before |-> store]
  /\ nops' = nops + 1
  /\ UNCHANGED <<now, uuid, born, calls>>

\* the call ends in the catch; rejected names the request that was rejected
Rejected(op, rejected, after) ==
  /\ store' = after
  /\ last' = [op |-> op, ok |-> FALSE, rejected |-> rejected, before |-> store]
  /\ nops' = nops + 1
  /\ UNCHANGED <<now, born, calls>>

\* addPatient, db.patients.add rejected
addPatientRejected(patient) ==
  Rejected("addPatient", "add", store) /\ uuid' = randomUUID(uuid)

\* updatePatient, db.patients.get or db.patients.update rejected
updatePatientRejected(id, updates) ==
  \/ Rejected("updatePatient", "get", store) /\ UNCHANGED uuid
  \/ /\ TableHas(store, id)
     /\ Rejected("updatePatient", "update", store)
     /\ uuid' = uuid + Len(NewChanges(store[id], AllowedUpdates(updates), now, uuid))

\* addHandoverNote, db.patients.get or db.patients.update rejected
addHandoverNoteRejected(patientId, handoverNote) ==
  \/ Rejected("addHandoverNote", "get", store) /\ UNCHANGED uuid
  \/ /\ TableHas(store, patientId)
     /\ Rejected("addHandoverNote", "update", store)
     /\ uuid' = uuid + 1

\* deletePatient, db.patients.delete rejected, or the db.patients.get after it
deletePatientRejected(id) ==
  \/ Rejected("deletePatient", "delete", store) /\ UNCHANGED uuid
  \/ \E after \in DeleteOutcomes(store, id) :
       Rejected("deletePatient", "get", after) /\ UNCHANGED uuid

\* a reading handler, its query rejected
readRejected(op) == Rejected(op, "query", store) /\ UNCHANGED uuid

\* clearAllPatients, db.patients.clear rejected
clearAllPatientsRejected ==
  Rejected("clearAllPatients", "clear", store) /\ UNCHANGED uuid

FaultCreate ==
  nops < MaxFaultOps /\ \E patient \in NewPatients : addPatient(patient)

FaultUpdate ==
  nops < MaxFaultOps /\ \E id \in DOMAIN store, updates \in FaultPayloads :
                          updatePatient(id, updates)

FaultAddNote ==
  nops < MaxFaultOps /\ \E id \in DOMAIN store, note \in LedgerNotes :
                          addHandoverNote(id, note)

FaultDelete == nops < MaxFaultOps /\ \E id \in DOMAIN store : deletePatient(id)

FaultClear == nops < MaxFaultOps /\ clearAllPatients

ReadCount ==
  Read("getPatientCount", "", [ok |-> TRUE, count |-> getPatientCount(store)])

CreateRejected ==
  nops < MaxFaultOps /\ \E patient \in NewPatients : addPatientRejected(patient)

UpdateRejected ==
  nops < MaxFaultOps /\ \E id \in DOMAIN store, updates \in FaultPayloads :
                          updatePatientRejected(id, updates)

AddNoteRejected ==
  nops < MaxFaultOps /\ \E id \in DOMAIN store, note \in LedgerNotes :
                          addHandoverNoteRejected(id, note)

DeleteRejected ==
  nops < MaxFaultOps /\ \E id \in DOMAIN store : deletePatientRejected(id)

ReadRejected == nops < MaxFaultOps /\ \E op \in ReadOps : readRejected(op)

ClearRejected == nops < MaxFaultOps /\ clearAllPatientsRejected

NextFault ==
  \/ FaultCreate \/ FaultUpdate \/ FaultAddNote \/ FaultDelete \/ FaultClear
  \/ ReadAll \/ ReadCount \/ Tick
  \/ CreateRejected \/ UpdateRejected \/ AddNoteRejected \/ DeleteRejected
  \/ ReadRejected \/ ClearRejected

SpecFault == Init /\ [][NextFault]_vars

\* ------------------------------------------------- the store exported
\* a record whose text needs escaping
QuotedPatient ==
  [name |-> "O\"Brien, J.", age |-> 41, symptoms |-> <<"Fever", "Cough">>,
   condition |-> "a\nb", triageLevel |-> "Critical", status |-> "Waiting",
   notes |-> "", lastUpdated |-> 0]

ExportPatients == {FormPatient, FullPatient, QuotedPatient}

CsvValues == {"", "plain", "x,y", "O\"Brien, J.", "a\nb", "c\rd"}

\* readings of new Date(): 2024-01-15T14:30:45Z, with and without
\* milliseconds, 2000-02-29T23:59:59.999Z and 1970-01-01T00:00:00Z
Instants ==
  { [s |-> 1705329045, ms |-> 0], [s |-> 1705329045, ms |-> 123],
    [s |-> 951868799, ms |-> 999], [s |-> 0, ms |-> 0] }

Extensions == {"csv", "json"}

ExportCreate ==
  nops < MaxExportOps /\ \E patient \in ExportPatients : addPatient(patient)

ExportCSV == Read("exportToCSV", "", exportToCSV(store))

ExportJSON ==
  \E date \in Instants : Read("exportToJSON", date, exportData(store, date))

EscapeValue ==
  \E value \in CsvValues :
    Read("escapeCSVValue", value, escapeCSVValue(Chars(value)))

Filename ==
  \E date \in Instants, extension \in Extensions :
    Read("generateTimestampedFilename",
         [prefix |-> "triage-export", extension |-> extension, date |-> date],
         generateTimestampedFilename("triage-export", extension, date))

NextExport ==
  ExportCreate \/ Tick \/ ExportCSV \/ ExportJSON \/ EscapeValue \/ Filename

SpecExport == Init /\ [][NextExport]_vars

\* ================================================================ claims
SystemFields == {"id", "timestamp", "status", "notes", "lastUpdated"}

TrackedFields == {"status", "triageLevel", "notes", "treatmentPlan"}

ChangeTypeOf(f) ==
  CASE f = "status" -> "status"
    [] f = "triageLevel" -> "triage"
    [] f = "notes" -> "notes"
    [] f = "treatmentPlan" -> "treatment"

IsNewestFirst(arr) ==
  \A i \in 1..Len(arr), j \in 1..Len(arr) :
    i < j => arr[i].timestamp >= arr[j].timestamp

Count(arr, e) == Cardinality({i \in 1..Len(arr) : arr[i] = e})

Elems(arr) == {arr[i] : i \in 1..Len(arr)}

UpdateDone == last.op = "updatePatient" /\ last.ok

\* the record a finished update or addHandoverNote worked on, before and after
Before == last.before[last.id]

After == store[last.id]

\* f is in the partial update with a value other than the stored one (a
\* property that is not set and the empty string both count as no value)
Changes(f) ==
  /\ Has(AllowedUpdates(last.updates), f)
  /\ last.updates[f] # OrElse(Before, f, "")

\* the entries the update added to the stored statusChanges
Appended ==
  {e \in Elems(After.statusChanges) :
     Count(After.statusChanges, e) > Count(OrEmpty(Before, "statusChanges"), e)}

\* C1: create then a read of the returned id gives the caller's properties
\* (other than status, notes and lastUpdated) as passed, a fresh id, the
\* creation instant as timestamp and lastUpdated, status Waiting and notes "".
C1_CreateRoundTrip ==
  (last.op = "addPatient" /\ last.ok) =>
    LET r == getById(store, last.id)[1]
    IN /\ getById(store, last.id) # << >>
       /\ ~TableHas(last.before, last.id)
       /\ DOMAIN r = (DOMAIN last.patient) \cup SystemFields
       /\ \A k \in (DOMAIN last.patient) \ SystemFields : r[k] = last.patient[k]
       /\ r.id = last.id
       /\ r.timestamp = last.t
       /\ r.lastUpdated = r.timestamp
       /\ r.status = "Waiting"
       /\ r.notes = ""

C1_Witness ==
  /\ last.op = "addPatient" /\ last.ok
  /\ last.patient = FullPatient
  /\ last.t > 0
  /\ store[last.id].status = "Waiting"
  /\ store[last.id].treatmentPlan = "rest"

IdTimestampNamePayload == [id |-> 99, timestamp |-> 0, name |-> "X"]

\* C2 as stated: update(id, {id: other, timestamp: 0, name: X}) changes only
\* name and lastUpdated; every other stored property, statusChanges and
\* handoverNotes included, is the same before and after.
C2_OnlyNameAndLastUpdated ==
  (UpdateDone /\ last.updates = IdTimestampNamePayload) =>
    Rest(After, {"name", "lastUpdated"}) = Rest(Before, {"name", "lastUpdated"})

\* C2 as amended: that update changes only name, lastUpdated and
\* statusChanges; statusChanges is rewritten to the entries the record had
\* (none if it had no statusChanges), newest first, and is the same list
\* when the record already held such a list.
C2_NameLastUpdatedAndNormalisedChanges ==
  (UpdateDone /\ last.updates = IdTimestampNamePayload) =>
    LET frame == {"name", "lastUpdated", "statusChanges"}
        was == OrEmpty(Before, "statusChanges")
    IN /\ Rest(After, frame) = Rest(Before, frame)
       /\ After.id = last.id /\ After.id = Before.id
       /\ After.timestamp = Before.timestamp
       /\ After.name = "X"
       /\ After.lastUpdated = last.t2
       /\ Len(After.statusChanges) = Len(was)
       /\ \A e \in Elems(was) \cup Elems(After.statusChanges) :
            Count(After.statusChanges, e) = Count(was, e)
       /\ IsNewestFirst(After.statusChanges)
       /\ (Has(Before, "statusChanges") /\ IsNewestFirst(was))
            => After.statusChanges = was

C2_Witness ==
  /\ UpdateDone /\ last.updates = IdTimestampNamePayload
  /\ Before.name = "Ann"
  /\ ~Has(Before, "statusChanges")
  /\ After.statusChanges = << >>

\* C3: every stored record keeps the id and the timestamp addPatient gave it,
\* whatever updatePatient and addHandoverNote calls were made since.
C3_IdAndTimestampFixed ==
  \A id \in DOMAIN store :
    /\ id \in DOMAIN born
    /\ store[id].id = id
    /\ store[id].id = born[id].id
    /\ store[id].timestamp = born[id].timestamp

C3_Witness ==
  /\ UpdateDone /\ last.updates = IdTimestampNamePayload
  /\ After.name = "X"
  /\ After.timestamp > 0
  /\ Has(Before, "handoverNotes") /\ Before.handoverNotes[1].id # 0

\* C4: an update changing status Waiting -> In Treatment and no other tracked
\* field appends exactly one StatusChange (status, Waiting, In Treatment,
\* highlighted, patientId = the record's id); an update changing only notes
\* appends exactly one notes entry, not highlighted; isHighlighted is true
\* for status, triage and treatment entries and false for notes entries;
\* previousValue is the prior value, or the placeholder when there is none.
C4_AuditSynthesis ==
  UpdateDone =>
    /\ (/\ Before.status = "Waiting"
        /\ Has(last.updates, "status") /\ last.updates.status = "In Treatment"
        /\ \A f \in TrackedFields \ {"status"} : ~Changes(f))
         => \E e \in Appended :
              /\ Appended = {e} /\ Count(After.statusChanges, e) = 1
              /\ e.changeType = "status" /\ e.previousValue = "Waiting"
              /\ e.newValue = "In Treatment" /\ e.isHighlighted
              /\ e.patientId = last.id
    /\ (Changes("notes") /\ \A f \in TrackedFields \ {"notes"} : ~Changes(f))
         => \E e \in Appended :
              /\ Appended = {e} /\ Count(After.statusChanges, e) = 1
              /\ e.changeType = "notes" /\ ~e.isHighlighted
    /\ \A e \in Appended :
         /\ e.isHighlighted = (e.changeType \in {"status", "triage", "treatment"})
         /\ \A f \in TrackedFields :
              e.changeType = ChangeTypeOf(f) =>
                e.previousValue =
                  OrElse(Before, f, CASE f = "status" -> "Unknown"
                                      [] f = "notes" -> "No notes"
                                      [] f = "treatmentPlan" -> "No treatment plan"
                                      [] f = "triageLevel" -> Undefined)

\* C5: for every update and each tracked field, a StatusChange for the field
\* is synthesized if and only if the field is in the partial update with a
\* value other than the stored one, the empty string included.
C5_SynthesizedIffChanged ==
  UpdateDone =>
    \A f \in TrackedFields :
      (\E e \in Elems(last.newChanges) : e.changeType = ChangeTypeOf(f))
        <=> Changes(f)

\* C8: every stored record holds at most 50 statusChanges and at most 20
\* handoverNotes, whatever payloads the callers passed.
C8_RetentionBounds ==
  \A id \in DOMAIN store :
    /\ Len(OrEmpty(store[id], "statusChanges")) <= MaxStatusChanges
    /\ Len(OrEmpty(store[id], "handoverNotes")) <= MaxHandoverNotes

\* C10: when deletePatient reports success the record is readable neither by
\* id nor through getPatients; a record the engine's delete left readable
\* makes deletePatient fail.
C10_DeleteSuccessMeansGone ==
  last.op = "deletePatient" =>
    /\ last.ok => /\ getById(store, last.id) = << >>
                  /\ \A r \in Elems(getPatients(store)) : r.id # last.id
    /\ getById(store, last.id) # << >> => ~last.ok

C10_Witness ==
  /\ last.op = "deletePatient" /\ last.ok
  /\ TableHas(last.before, last.id)
  /\ Has(last.before[last.id], "handoverNotes")
  /\ Has(last.before[last.id], "statusChanges")
  /\ ~TableHas(store, last.id)

\* C6: after more than 50 sequential updates of one record, each producing
\* exactly one StatusChange, statusChanges has exactly 50 entries, those of
\* the 50 most recent updates, newest first.  (In SpecAudit every identifier
\* after the record's own is the one of the StatusChange of one update.)
C6_KeepsFiftyMostRecent ==
  \A id \in DOMAIN store :
    (nops - 1 > MaxStatusChanges /\ uuid = nops) =>
      LET sc == store[id].statusChanges
      IN /\ Len(sc) = MaxStatusChanges
         /\ {sc[i].id : i \in 1..Len(sc)} = (uuid - MaxStatusChanges + 1)..uuid
         /\ IsNewestFirst(sc)

\* C7: after more than 20 sequential addNote calls on one record,
\* handoverNotes has exactly 20 entries, the notes of the 20 most recent
\* calls, the latest call's note at the head and each older one behind it.
\* (In SpecLedger every identifier after the record's own is a note's.)
C7_KeepsTwentyMostRecentNotes ==
  \A id \in DOMAIN store :
    (nops - 1 > MaxHandoverNotes /\ uuid = nops) =>
      LET hn == store[id].handoverNotes
      IN /\ Len(hn) = MaxHandoverNotes
         /\ \A i \in 1..Len(hn) :
              /\ hn[i].id = uuid - i + 1
              /\ hn[i].patientId = id
              /\ hn[i].summary = "s1"
         /\ hn[1].id = last.noteId

C7_Witness ==
  /\ nops - 1 = MaxHandoverNotes + 2
  /\ \E id \in DOMAIN store :
       /\ Has(born[id], "handoverNotes") /\ Len(born[id].handoverNotes) = 1
       /\ Len(store[id].handoverNotes) = MaxHandoverNotes
       /\ store[id].handoverNotes[1].id = uuid
       /\ store[id].handoverNotes[1].timestamp > store[id].handoverNotes[2].timestamp

\* C9: two updates of one record, each changing another tracked field, are
\* serialized: when both have returned success, the StatusChange of each is
\* in the stored statusChanges.
C9_NoLostAuditEntry ==
  \A c1 \in Callers, c2 \in Callers :
    (/\ c1 # c2
     /\ calls[c1].pc = "done" /\ calls[c1].op = "updatePatient" /\ calls[c1].ok
     /\ calls[c2].pc = "done" /\ calls[c2].op = "updatePatient" /\ calls[c2].ok
     /\ calls[c1].id = calls[c2].id
     /\ TableHas(store, calls[c1].id)
     /\ calls[c1].updates # calls[c2].updates
     /\ calls[c1].newChanges # << >> /\ calls[c2].newChanges # << >>)
      => \A e \in Elems(calls[c1].newChanges) \cup Elems(calls[c2].newChanges) :
           e \in Elems(store[calls[c1].id].statusChanges)

\* C11: a delete of an id that is not in the store (a second delete of the
\* same id in particular) fails with a not-found error.
C11_DeleteOfAbsentFails ==
  (last.op = "deletePatient" /\ ~TableHas(last.before, last.id)) => ~last.ok

\* C12: updatePatient and addHandoverNote called with an id that is not in
\* the store fail, create no record for that id and leave every stored record
\* as it was.
C12_AbsentIdFailsAndChangesNothing ==
  (/\ last.op \in {"updatePatient", "addHandoverNote"}
   /\ ~TableHas(last.before, last.id))
    => /\ ~last.ok
       /\ ~TableHas(store, last.id)
       /\ store = last.before

C12_Witness ==
  /\ last.op = "addHandoverNote" /\ ~last.ok
  /\ last.id \notin DOMAIN born
  /\ ~TableHas(last.before, last.id)
  /\ DOMAIN store # {}
  /\ store = last.before

\* C13: after every successful updatePatient and addHandoverNote the record's
\* lastUpdated is the clock reading taken during that call, whatever
\* lastUpdated the payload carried and whether or not a value changed; every
\* stored record has lastUpdated >= timestamp.
C13_LastUpdatedIsCallInstant ==
  /\ (last.op \in {"updatePatient", "addHandoverNote"} /\ last.ok)
       => /\ After.lastUpdated = last.t2
          /\ last.t <= last.t2 /\ last.t2 <= now
  /\ \A id \in DOMAIN store : store[id].lastUpdated >= store[id].timestamp

C13_Witness ==
  /\ UpdateDone
  /\ Has(last.updates, "lastUpdated") /\ last.updates.lastUpdated = 0
  /\ Before.timestamp > 0
  /\ Before.lastUpdated = Before.timestamp
  /\ After.lastUpdated = last.t2
  /\ After.lastUpdated >= After.timestamp

\* C14: every StatusChange in a stored record was synthesized during an update
\* of that record; no caller places one through create: a record that
\* addPatient has just stored, no update of it having run, holds none.
C14_NoCallerPlacedChange ==
  (last.op = "addPatient" /\ last.ok) =>
    OrEmpty(store[last.id], "statusChanges") = << >>

\* C19: a successful create yields an identifier no record ever created had;
\* the record count is one higher and every record stored before is unchanged.
C19_FreshIdentifier ==
  (last.op = "addPatient" /\ last.ok) =>
    /\ last.id \notin last.created
    /\ ~TableHas(last.before, last.id)
    /\ TableHas(store, last.id)
    /\ Cardinality(DOMAIN store) = Cardinality(DOMAIN last.before) + 1
    /\ \A k \in DOMAIN last.before : TableHas(store, k) /\ store[k] = last.before[k]

C19_Witness ==
  /\ last.op = "addPatient" /\ last.ok
  /\ last.created # {}
  /\ last.created \ DOMAIN last.before # {}
  /\ last.id \notin last.created
  /\ TableHas(store, last.id)

\* sub is arr with some of its elements left out
IsSubsequenceOf(sub, arr) ==
  \E keep \in SUBSET (1..Len(arr)) :
    LET Kept(i) == Cardinality({k \in keep : k <= i})
    IN /\ Len(sub) = Cardinality(keep)
       /\ \A i \in keep : sub[Kept(i)] = arr[i]

Stored(db) == {db[id] : id \in DOMAIN db}

\* C15: getPatients returns every stored record exactly once, the record with
\* the larger creation timestamp first.
C15_GetAllComplete ==
  last.op = "getPatients" =>
    LET r == last.result.patients
    IN /\ last.result.ok
       /\ Elems(r) = Stored(store)
       /\ \A e \in Elems(r) : Count(r, e) = 1
       /\ Len(r) = getPatientCount(store)
       /\ \A i \in 1..Len(r), j \in 1..Len(r) :
            r[i].timestamp > r[j].timestamp => i < j

C15_Witness ==
  /\ last.op = "getPatients"
  /\ Len(last.result.patients) = 2
  /\ last.result.patients[1].timestamp > last.result.patients[2].timestamp
  /\ last.result.patients[1].id > last.result.patients[2].id
  /\ last.result.patients[2].lastUpdated > last.result.patients[2].timestamp

\* C16: getPatientsByTriageLevel(v) returns exactly the stored records whose
\* triageLevel is v, each once, newest first by timestamp.
C16_ByTriageLevelExact ==
  last.op = "getPatientsByTriageLevel" =>
    LET r == last.result.patients
    IN /\ last.result.ok
       /\ Elems(r) = {p \in Stored(store) : p.triageLevel = last.arg}
       /\ \A e \in Elems(r) : Count(r, e) = 1
       /\ IsNewestFirst(r)

C16_Witness ==
  /\ last.op = "getPatientsByTriageLevel" /\ last.arg = "Stable"
  /\ Len(last.result.patients) = 2
  /\ last.result.patients[1].timestamp > last.result.patients[2].timestamp
  /\ \E p \in Stored(store) : p.triageLevel # "Stable"

\* C17: getPatientsByStatus(s) returns exactly the stored records whose status
\* is s, each once, newest first by timestamp, on the store's schema.
C17_ByStatusExact ==
  last.op = "getPatientsByStatus" =>
    /\ last.result.ok
    /\ Elems(last.result.patients) = {p \in Stored(store) : p.status = last.arg}
    /\ IsNewestFirst(last.result.patients)

C20_FailureLeavesStoreAsItWas ==
  Has(last, "rejected") => (~last.ok /\ store = last.before)

\* a string written out: what the export is compared with
HeaderRow ==
  <<"P", "a", "t", "i", "e", "n", "t", " ", "I", "D", ",", "N", "a", "m",
    "e", ",", "A", "g", "e", ",", "S", "y", "m", "p", "t", "o", "m", "s",
    ",", "C", "o", "n", "d", "i", "t", "i", "o", "n", ",", "T", "r", "i",
    "a", "g", "e", " ", "L", "e", "v", "e", "l", ",", "T", "i", "m", "e",
    "s", "t", "a", "m", "p">>

OBrienEscaped ==
  <<"\"", "O", "\"", "\"", "B", "r", "i", "e", "n", ",", " ", "J", ".", "\"">>

ExampleFilename ==
  <<"t", "r", "i", "a", "g", "e", "-", "e", "x", "p", "o", "r", "t", "_",
    "2", "0", "2", "4", "-", "0", "1", "-", "1", "5", "_", "1", "4", "-",
    "3", "0", "-", "4", "5", ".", "c", "s", "v">>

CountChar(chars, c) == Cardinality({i \in 1..Len(chars) : chars[i] = c})

\* C21: exportToCSV on an empty store returns the no-data message and no
\* header; otherwise the header row, then one row per stored record in the
\* order of getPatients: id, name, age, symptoms joined with ';', condition,
\* triage level, timestamp.
C21_CsvDocument ==
  last.op = "exportToCSV" =>
    LET patients == getPatients(store)
        Cells(p) ==
          <<NumberToString(p.id), Chars(p.name), NumberToString(p.age),
            Join([i \in 1..Len(p.symptoms) |-> Chars(p.symptoms[i])], <<";">>),
            Chars(p.condition), Chars(p.triageLevel),
            toISOString(Instant(p.timestamp))>>
        Row(p) == Join([k \in 1..7 |-> escapeCSVValue(Cells(p)[k])], <<",">>)
    IN IF DOMAIN store = {}
       THEN last.result = Chars("No patient data available for export")
       ELSE last.result =
              Join(<<HeaderRow>> \o [i \in 1..Len(patients) |-> Row(patients[i])],
                   <<"\n">>)

C21_Witness ==
  /\ last.op = "exportToCSV"
  /\ Cardinality(DOMAIN store) = 2
  /\ \E id \in DOMAIN store : store[id].name = "O\"Brien, J."
  /\ \E id \in DOMAIN store : store[id].name = "Ann" /\ store[id].timestamp > 0
  /\ CountChar(last.result, "\n") = 3
  /\ SubSeq(last.result, 1, Len(HeaderRow)) = HeaderRow

\* C22: escapeCSVValue wraps a value in double quotes, every quote inside it
\* doubled, if and only if the value has a comma, a double quote or a line
\* break in it, and returns any other value as it is; O"Brien, J. becomes
\* "O""Brien, J.".
C22_EscapeRule ==
  last.op = "escapeCSVValue" =>
    LET value == Chars(last.arg)
        r == last.result
        inner == SubSeq(r, 2, Len(r) - 1)
        special == \E c \in {",", "\"", "\n", "\r"} : HasChar(value, c)
    IN /\ special =>
            /\ Len(r) >= 2 /\ r[1] = "\"" /\ r[Len(r)] = "\""
            /\ Len(inner) = Len(value) + CountChar(value, "\"")
            /\ CountChar(inner, "\"") = 2 * CountChar(value, "\"")
            /\ \A i \in 1..Len(inner) :
                 inner[i] = "\"" =>
                   \/ i > 1 /\ inner[i - 1] = "\""
                   \/ i < Len(inner) /\ inner[i + 1] = "\""
            /\ ReplaceAll(inner, "\"", << >>) = ReplaceAll(value, "\"", << >>)
       /\ ~special => r = value
       /\ last.arg = "O\"Brien, J." => r = OBrienEscaped

C22_Witness ==
  /\ last.op = "escapeCSVValue"
  /\ last.arg = "O\"Brien, J."
  /\ last.result = OBrienEscaped

\* C23: the document of exportToJSON has patientCount = the number of stored
\* records and lists every stored record once in the order of getPatients,
\* its timestamp replaced by the ISO-8601 string of that instant and every
\* other property, statusChanges and handoverNotes included, as stored.
C23_JsonDocument ==
  last.op = "exportToJSON" =>
    LET doc == last.result
        patients == getPatients(store)
    IN /\ doc.patientCount = Cardinality(DOMAIN store)
       /\ Len(doc.patients) = Len(patients)
       /\ {doc.patients[i].id : i \in 1..Len(doc.patients)} = DOMAIN store
       /\ \A i \in 1..Len(patients) :
            /\ Rest(doc.patients[i], {"timestamp"}) = Rest(patients[i], {"timestamp"})
            /\ Rest(doc.patients[i], {"timestamp"}) = Rest(store[patients[i].id], {"timestamp"})
            /\ doc.patients[i].timestamp = toISOString(Instant(patients[i].timestamp))
            /\ Len(doc.patients[i].timestamp) = 24
            /\ doc.patients[i].timestamp[11] = "T"
            /\ doc.patients[i].timestamp[24] = "Z"

C23_Witness ==
  /\ last.op = "exportToJSON"
  /\ last.result.patientCount = 2
  /\ Has(last.result.patients[1], "statusChanges")
  /\ Has(last.result.patients[1], "handoverNotes")
  /\ last.result.patients[1].timestamp # last.result.patients[2].timestamp
  /\ last.result.patients[1].timestamp[23] = "1"

\* C24: generateTimestampedFilename(prefix, extension) returns
\* prefix_YYYY-MM-DD_HH-MM-SS.extension for the clock reading, an underscore
\* between the date and the time; at 2024-01-15T14:30:45Z it returns
\* triage-export_2024-01-15_14-30-45.csv.
C24_FilenameFormat ==
  last.op = "generateTimestampedFilename" =>
    LET date == last.arg.date
        civil == CivilFromDays(date.s \div 86400)
        secs == date.s % 86400
    IN /\ last.result =
            Chars(last.arg.prefix) \o <<"_">>
              \o Padded(civil.year, 4) \o <<"-">> \o Padded(civil.month, 2)
              \o <<"-">> \o Padded(civil.day, 2) \o <<"_">>
              \o Padded(secs \div 3600, 2) \o <<"-">>
              \o Padded((secs \div 60) % 60, 2) \o <<"-">> \o Padded(secs % 60, 2)
              \o <<".">> \o Chars(last.arg.extension)
       /\ (date.s = 1705329045 /\ last.arg.extension = "csv")
            => last.result = ExampleFilename

\* C25: an update that changes k of the four tracked fields appends exactly
\* k StatusChange entries, one per changed field, all with one timestamp; an
\* update that changes no tracked field leaves the audit entries as they were.
C25_OneEntryPerChangedField ==
  UpdateDone =>
    LET changed == {f \in TrackedFields : Changes(f)}
        was == OrEmpty(Before, "statusChanges")
    IN /\ Len(After.statusChanges) = Len(was) + Cardinality(changed)
       /\ Len(last.newChanges) = Cardinality(changed)
       /\ {last.newChanges[i].changeType : i \in 1..Len(last.newChanges)}
            = {ChangeTypeOf(f) : f \in changed}
       /\ \A i, j \in 1..Len(last.newChanges) :
            last.newChanges[i].timestamp = last.newChanges[j].timestamp
       /\ changed = {} =>
            \A e \in Elems(was) \cup Elems(After.statusChanges) :
              Count(After.statusChanges, e) = Count(was, e)

\* C26: a successful addHandoverNote changes only handoverNotes and
\* lastUpdated of the record it names; no StatusChange is added, every other
\* property and every other record stay as they were; the stored note is the
\* caller's note with a generated id, that record's id as patientId and the
\* instant of the call as timestamp.
C26_AddNoteFrame ==
  (last.op = "addHandoverNote" /\ last.ok) =>
    LET frame == {"handoverNotes", "lastUpdated"}
        was == OrEmpty(Before, "handoverNotes")
        stored == After.handoverNotes[1]
    IN /\ Rest(After, frame) = Rest(Before, frame)
       /\ DOMAIN store = DOMAIN last.before
       /\ \A id \in (DOMAIN store) \ {last.id} : store[id] = last.before[id]
       /\ Len(After.handoverNotes) >= 1
       /\ DOMAIN stored = (DOMAIN last.note) \cup {"id", "patientId", "timestamp"}
       /\ \A k \in (DOMAIN last.note) \ {"id", "patientId", "timestamp"} :
            stored[k] = last.note[k]
       /\ stored.id = last.noteId
       /\ \A i \in 1..Len(was) : was[i].id # stored.id
       /\ stored.patientId = last.id
       /\ stored.timestamp = last.t
       /\ Tail(After.handoverNotes) = Slice(was, MaxHandoverNotes - 1)

C26_Witness ==
  /\ last.op = "addHandoverNote" /\ last.ok
  /\ Has(last.note, "patientId")
  /\ Has(Before, "statusChanges") /\ Before.statusChanges # << >>
  /\ After.statusChanges = Before.statusChanges
  /\ Len(After.handoverNotes) = 2
  /\ After.handoverNotes[1].patientId = last.id
  /\ last.t > 0

\* C27: after a successful update that changes a tracked field, every
\* StatusChange the update synthesized is in the stored statusChanges, also
\* when the record held 50 entries with the same or a higher timestamp.
C27_NewEntriesSurviveRetention ==
  (UpdateDone /\ last.newChanges # << >>) =>
    \A e \in Elems(last.newChanges) : e \in Elems(After.statusChanges)

\* two finished calls were in flight together: the one that started later
\* had started when the other one wrote (seq numbers the calls as they
\* start, wroteAt is the number of calls started when the call wrote)
InFlightTogether(a, b) ==
  \/ a.seq < b.seq /\ b.seq <= a.wroteAt
  \/ b.seq < a.seq /\ a.seq <= b.wroteAt

\* C28: two addHandoverNote calls on one record in flight together, the
\* record holding fewer than 19 notes: once both have returned success both
\* notes are in the record's handoverNotes.
C28_NoLostNote ==
  \A c1 \in Callers, c2 \in Callers :
    (/\ c1 # c2
     /\ calls[c1].pc = "done" /\ calls[c1].op = "addHandoverNote" /\ calls[c1].ok
     /\ calls[c2].pc = "done" /\ calls[c2].op = "addHandoverNote" /\ calls[c2].ok
     /\ calls[c1].id = calls[c2].id
     /\ InFlightTogether(calls[c1], calls[c2])
     /\ TableHas(store, calls[c1].id)
     /\ \A c \in {c1, c2} :
          Len(OrEmpty(calls[c].existingPatient, "handoverNotes"))
            < MaxHandoverNotes - 1)
      => LET hn == store[calls[c1].id].handoverNotes
         IN {calls[c1].noteId, calls[c2].noteId}
              \subseteq {hn[i].id : i \in 1..Len(hn)}

C30_DeletedStaysDeleted ==
  [][\A id \in DOMAIN born : ~TableHas(store, id) => ~TableHas(store', id)]_vars

C30_Witness ==
  \E c1 \in Callers, c2 \in Callers :
    /\ calls[c1].pc = "done" /\ calls[c1].op = "deletePatient" /\ calls[c1].ok
    /\ calls[c2].pc = "done" /\ calls[c2].op \in {"updatePatient", "addHandoverNote"}
    /\ calls[c2].ok /\ calls[c2].updated = 0
    /\ calls[c2].id = calls[c1].id
    /\ calls[c2].id \in DOMAIN born
    /\ ~TableHas(store, calls[c2].id)

====
